---- MODULE Spec2Model ----
(***************************************************************************)
(* State-machine model of the map view (src/src/app/map/page.tsx, MapPage) *)
(* of lorn-rolls: one mount of the view, its effects, the callbacks of the *)
(* position stream, the locations fetch and the map surface, and its pure  *)
(* helpers.  Every event handler is one action and includes the re-render  *)
(* and the effects React runs after it.                                    *)
(***************************************************************************)
EXTENDS Integers, Sequences, FiniteSets, TLC

\* ---------------------------------------------------------------- values
\* "T | null" for objects: null is the empty sequence, a value v is <<v>>.
None == <<>>
Some(v) == <<v>>
\* "string | null": null is a value no program string equals.
Null == "NULL"
\* A non-finite number (NaN): Number.isFinite is false on it.
NaN == 1000
IsFinite(x) == x # NaN

\* Longest row list the locations fetch returns in the model.
MaxLen == 2

\* Most loadAll calls one PlaceClient makes.
MaxLoads == 2

\* A LocationRow.  The id is kept as the raw value the store returned.
Row(id, name, description, lat, lng) ==
    [id |-> id, name |-> name, description |-> description, lat |-> lat, lng |-> lng]
StrId(s) == [kind |-> "string", text |-> s]
NullId == [kind |-> "null", text |-> ""]

RowDomain ==
    { Row(StrId("abc"), "Van", Null, 56, -2),
      Row(StrId("xyz"), "Cafe", "Bakery", 56, -4),
      Row(NullId, "Shop", "Corner", 57, -2),
      Row(StrId("null"), "Kiosk", "", 56, -3),
      Row(StrId("bad"), "Lost", Null, NaN, -3) }

\* The store returns each row at most once.
RowLists ==
    { l \in UNION { [1..k -> RowDomain] : k \in 0..MaxLen } :
        \A i, j \in 1..Len(l) : l[i] = l[j] => i = j }

\* Rows for the view without a map: RowDomain and a row whose latitude is
\* finite but outside [-90, 90].
WideRowDomain == RowDomain \cup { Row(StrId("far"), "Pole", Null, 95, -3) }

WideRowLists ==
    { l \in UNION { [1..k -> WideRowDomain] : k \in 0..MaxLen } :
        \A i, j \in 1..Len(l) : l[i] = l[j] => i = j }

WideFetchResults ==
    { [error |-> Null, data |-> Some(l)] : l \in WideRowLists }
      \cup { [error |-> Null, data |-> None], [error |-> "fetch failed", data |-> None] }

\* Outcomes of the supabase select: { data, error }.
FetchResults ==
    { [error |-> Null, data |-> Some(l)] : l \in RowLists }
      \cup { [error |-> Null, data |-> None], [error |-> "fetch failed", data |-> None] }

\* Positions and failure messages the platform reports.
Positions == { [lat |-> 56, lng |-> -3], [lat |-> 57, lng |-> -3] }
GeoMessages == { "", "User denied Geolocation" }
Callbacks ==
    { [ok |-> TRUE, pos |-> p, message |-> ""] : p \in Positions }
      \cup { [ok |-> FALSE, pos |-> [lat |-> 0, lng |-> 0], message |-> m] : m \in GeoMessages }

Heights == { 667, 800 }

\* ---------------------------------------------------------- pure helpers
ValidCoord(l) == IsFinite(l.lat) /\ IsFinite(l.lng)

Feature(l) ==
    [id |-> l.id, name |-> l.name,
     description |-> IF l.description = Null THEN "" ELSE l.description,
     lng |-> l.lng, lat |-> l.lat]

\* geojson.features
geojson(locs) ==
    LET kept == SelectSeq(locs, ValidCoord)
    IN  [i \in 1..Len(kept) |-> Feature(kept[i])]

\* haversineMeters on the model's coordinates, in centimetres (rounded).
HaversineTable ==
    <<56, -4, 56, -4>> :> 0 @@
    <<56, -4, 56, -3>> :> 6217887 @@
    <<56, -4, 56, -2>> :> 12435449 @@
    <<56, -4, 57, -4>> :> 11119493 @@
    <<56, -4, 57, -3>> :> 12700429 @@
    <<56, -4, 57, -2>> :> 16560986 @@
    <<56, -4, 95, -4>> :> 433660214 @@
    <<56, -4, 95, -3>> :> 433652699 @@
    <<56, -4, 95, -2>> :> 433630157 @@
    <<56, -3, 56, -4>> :> 6217887 @@
    <<56, -3, 56, -3>> :> 0 @@
    <<56, -3, 56, -2>> :> 6217887 @@
    <<56, -3, 57, -4>> :> 12700429 @@
    <<56, -3, 57, -3>> :> 11119493 @@
    <<56, -3, 57, -2>> :> 12700429 @@
    <<56, -3, 95, -4>> :> 433652699 @@
    <<56, -3, 95, -3>> :> 433660214 @@
    <<56, -3, 95, -2>> :> 433652699 @@
    <<56, -2, 56, -4>> :> 12435449 @@
    <<56, -2, 56, -3>> :> 6217887 @@
    <<56, -2, 56, -2>> :> 0 @@
    <<56, -2, 57, -4>> :> 16560986 @@
    <<56, -2, 57, -3>> :> 12700429 @@
    <<56, -2, 57, -2>> :> 11119493 @@
    <<56, -2, 95, -4>> :> 433630157 @@
    <<56, -2, 95, -3>> :> 433652699 @@
    <<56, -2, 95, -2>> :> 433660214 @@
    <<57, -4, 56, -4>> :> 11119493 @@
    <<57, -4, 56, -3>> :> 12700429 @@
    <<57, -4, 56, -2>> :> 16560986 @@
    <<57, -4, 57, -4>> :> 0 @@
    <<57, -4, 57, -3>> :> 6056056 @@
    <<57, -4, 57, -2>> :> 12111787 @@
    <<57, -4, 95, -4>> :> 422540721 @@
    <<57, -4, 95, -3>> :> 422533240 @@
    <<57, -4, 95, -2>> :> 422510797 @@
    <<57, -3, 56, -4>> :> 12700429 @@
    <<57, -3, 56, -3>> :> 11119493 @@
    <<57, -3, 56, -2>> :> 12700429 @@
    <<57, -3, 57, -4>> :> 6056056 @@
    <<57, -3, 57, -3>> :> 0 @@
    <<57, -3, 57, -2>> :> 6056056 @@
    <<57, -3, 95, -4>> :> 422533240 @@
    <<57, -3, 95, -3>> :> 422540721 @@
    <<57, -3, 95, -2>> :> 422533240 @@
    <<57, -2, 56, -4>> :> 16560986 @@
    <<57, -2, 56, -3>> :> 12700429 @@
    <<57, -2, 56, -2>> :> 11119493 @@
    <<57, -2, 57, -4>> :> 12111787 @@
    <<57, -2, 57, -3>> :> 6056056 @@
    <<57, -2, 57, -2>> :> 0 @@
    <<57, -2, 95, -4>> :> 422510797 @@
    <<57, -2, 95, -3>> :> 422533240 @@
    <<57, -2, 95, -2>> :> 422540721 @@
    <<95, -4, 56, -4>> :> 433660214 @@
    <<95, -4, 56, -3>> :> 433652699 @@
    <<95, -4, 56, -2>> :> 433630157 @@
    <<95, -4, 57, -4>> :> 422540721 @@
    <<95, -4, 57, -3>> :> 422533240 @@
    <<95, -4, 57, -2>> :> 422510797 @@
    <<95, -4, 95, -4>> :> 0 @@
    <<95, -4, 95, -3>> :> 969115 @@
    <<95, -4, 95, -2>> :> 1938158 @@
    <<95, -3, 56, -4>> :> 433652699 @@
    <<95, -3, 56, -3>> :> 433660214 @@
    <<95, -3, 56, -2>> :> 433652699 @@
    <<95, -3, 57, -4>> :> 422533240 @@
    <<95, -3, 57, -3>> :> 422540721 @@
    <<95, -3, 57, -2>> :> 422533240 @@
    <<95, -3, 95, -4>> :> 969115 @@
    <<95, -3, 95, -3>> :> 0 @@
    <<95, -3, 95, -2>> :> 969115 @@
    <<95, -2, 56, -4>> :> 433630157 @@
    <<95, -2, 56, -3>> :> 433652699 @@
    <<95, -2, 56, -2>> :> 433660214 @@
    <<95, -2, 57, -4>> :> 422510797 @@
    <<95, -2, 57, -3>> :> 422533240 @@
    <<95, -2, 57, -2>> :> 422540721 @@
    <<95, -2, 95, -4>> :> 1938158 @@
    <<95, -2, 95, -3>> :> 969115 @@
    <<95, -2, 95, -2>> :> 0

haversineMeters(aLat, aLng, bLat, bLng) == HaversineTable[<<aLat, aLng, bLat, bLng>>]

RECURSIVE NearestScanLastTie(_, _, _, _)
NearestScanLastTie(up, locs, i, best) ==
    IF i > Len(locs) THEN best
    ELSE LET loc == locs[i] IN
         IF ~IsFinite(loc.lat) \/ ~IsFinite(loc.lng)
         THEN NearestScanLastTie(up, locs, i + 1, best)
         ELSE LET m == haversineMeters(up.lat, up.lng, loc.lat, loc.lng) IN
              IF best = None \/ m <= best[1].meters
              THEN NearestScanLastTie(up, locs, i + 1, Some([loc |-> loc, meters |-> m]))
              ELSE NearestScanLastTie(up, locs, i + 1, best)

RECURSIVE NearestScanFarthest(_, _, _, _)
NearestScanFarthest(up, locs, i, best) ==
    IF i > Len(locs) THEN best
    ELSE LET loc == locs[i] IN
         IF ~IsFinite(loc.lat) \/ ~IsFinite(loc.lng)
         THEN NearestScanFarthest(up, locs, i + 1, best)
         ELSE LET m == haversineMeters(up.lat, up.lng, loc.lat, loc.lng) IN
              IF best = None \/ m > best[1].meters
              THEN NearestScanFarthest(up, locs, i + 1, Some([loc |-> loc, meters |-> m]))
              ELSE NearestScanFarthest(up, locs, i + 1, best)

RECURSIVE NearestScan(_, _, _, _)
NearestScan(up, locs, i, best) ==
    IF i > Len(locs) THEN best
    ELSE LET loc == locs[i] IN
         IF ~IsFinite(loc.lat) \/ ~IsFinite(loc.lng)
         THEN NearestScan(up, locs, i + 1, best)
         ELSE LET m == haversineMeters(up.lat, up.lng, loc.lat, loc.lng) IN
              IF best = None \/ m < best[1].meters
              THEN NearestScan(up, locs, i + 1, Some([loc |-> loc, meters |-> m]))
              ELSE NearestScan(up, locs, i + 1, best)

\* nearest (useMemo): up is userPos, locs is locations.
nearest(up, locs) ==
    IF up = None THEN None
    ELSE IF Len(locs) = 0 THEN None
    ELSE NearestScan(up[1], locs, 1, None)

useMemoNearestMissingDep(memo, upChanged, locsChanged, up, locs) ==
    IF upChanged THEN nearest(up, locs) ELSE memo

\* useMemo(..., [userPos, locations]): the callback runs again when one of
\* the deps is a new value, otherwise the cached value is kept.
useMemoNearest(memo, upChanged, locsChanged, up, locs) ==
    IF upChanged \/ locsChanged THEN nearest(up, locs) ELSE memo

\* Math.round(meters) for a non-negative distance given in centimetres.
RoundMeters(cm) == (cm + 50) \div 100

\* Distances (in centimetres) that are exactly halfway between two tenths
\* of a kilometre and whose quotient meters / 1000 is a double below the
\* decimal tie, so that toFixed(1) rounds them down (1150 / 1000 is
\* 1.149999999999999911).
TieRoundsDown == { 115000 }

\* (meters / 1000).toFixed(1): the tenths of a kilometre shown, for a
\* distance in centimetres.
ToFixed1(cm) ==
    IF cm \in TieRoundsDown THEN cm \div 10000 ELSE (cm + 5000) \div 10000

\* formatDistance, for a distance in centimetres.
formatDistanceInclusiveKm(cm) ==
    IF ~IsFinite(cm) THEN ""
    ELSE IF cm <= 100000 THEN ToString(RoundMeters(cm)) \o " m"
    ELSE LET t == ToFixed1(cm)
         IN ToString(t \div 10) \o "." \o ToString(t % 10) \o " km"

formatDistance(cm) ==
    IF ~IsFinite(cm) THEN ""
    ELSE IF cm < 100000 THEN ToString(RoundMeters(cm)) \o " m"
    ELSE LET t == ToFixed1(cm)
         IN ToString(t \div 10) \o "." \o ToString(t % 10) \o " km"

\* The chip: rendered when nearest && userPos, with formatDistance(nearest.meters).
nearestChip(n, up) ==
    IF n # None /\ up # None
    THEN Some([meters |-> n[1].meters, text |-> formatDistance(n[1].meters)])
    ELSE None

Min(S) == CHOOSE x \in S : \A y \in S : x <= y
Max(S) == CHOOSE x \in S : \A y \in S : x >= y

fitMapToPinsFirstOnly(m, features) ==
    IF Len(features) = 0 THEN <<>>
    ELSE IF Len(features) = 1
    THEN << [op |-> "easeTo", map |-> m,
             center |-> <<features[1].lng, features[1].lat>>,
             zoom |-> 15, duration |-> 800] >>
    ELSE << [op |-> "fitBounds", map |-> m,
             sw |-> <<features[1].lng, features[1].lat>>,
             ne |-> <<features[1].lng, features[1].lat>>,
             padding |-> [top |-> 80, bottom |-> 220, left |-> 60, right |-> 60],
             duration |-> 800, maxZoom |-> 16] >>

\* fitMapToPins: the camera requests it issues on map m.
fitMapToPins(m, features) ==
    IF Len(features) = 0 THEN <<>>
    ELSE IF Len(features) = 1
    THEN << [op |-> "easeTo", map |-> m,
             center |-> <<features[1].lng, features[1].lat>>,
             zoom |-> 15, duration |-> 800] >>
    ELSE LET lngs == { features[i].lng : i \in 1..Len(features) }
             lats == { features[i].lat : i \in 1..Len(features) }
         IN << [op |-> "fitBounds", map |-> m,
                sw |-> <<Min(lngs), Min(lats)>>, ne |-> <<Max(lngs), Max(lats)>>,
                padding |-> [top |-> 80, bottom |-> 220, left |-> 60, right |-> 60],
                duration |-> 800, maxZoom |-> 16] >>

\* Math.round(h * 0.5) for a non-negative integer h.
RoundHalf(h) == (h + 1) \div 2

\* typeof rawId === "string" ? rawId : String(rawId ?? "")
IdString(rawId) ==
    IF rawId.kind = "string" THEN rawId.text
    ELSE IF rawId.kind \in {"null", "undefined"} THEN ""
    ELSE rawId.text

InvalidIdNoNull(id) == id = "" \/ id = "undefined"

\* !id || id === "undefined" || id === "null"
InvalidId(id) == id = "" \/ id = "undefined" \/ id = "null"

\* ------------------------------------------------------- the write forms
\* Text typed into a form field is the sequence of its characters.
Digits == {"0", "1", "2", "3", "4", "5", "6", "7", "8", "9"}

DigitValue(c) == CHOOSE n \in 0..9 : <<"0", "1", "2", "3", "4", "5", "6", "7", "8", "9">>[n + 1] = c

RECURSIVE TrimStart(_)
TrimStart(s) == IF s # <<>> /\ Head(s) = " " THEN TrimStart(Tail(s)) ELSE s

RECURSIVE TrimEnd(_)
TrimEnd(s) == IF s # <<>> /\ s[Len(s)] = " " THEN TrimEnd(SubSeq(s, 1, Len(s) - 1)) ELSE s

\* String.prototype.trim
trim(s) == TrimEnd(TrimStart(s))

\* price.replace("£", ""): the first pound sign only is removed.
RECURSIVE replacePound(_)
replacePound(s) ==
    IF s = <<>> THEN <<>>
    ELSE IF Head(s) = "£" THEN Tail(s)
    ELSE <<Head(s)>> \o replacePound(Tail(s))

\* The value of a run of decimal digits.
RECURSIVE DigitsValue(_)
DigitsValue(s) ==
    IF s = <<>> THEN 0 ELSE 10 * DigitsValue(SubSeq(s, 1, Len(s) - 1)) + DigitValue(s[Len(s)])

\* Number(text) for text over digits, ".", "+", "-", space and characters
\* that belong to no numeric literal: white space is trimmed, the empty
\* string is 0, a signed decimal literal is its value, anything else NaN.
\* The value is held in hundredths (literals have at most two decimals).
Number(s) ==
    LET t == trim(s)
        signed == t # <<>> /\ Head(t) \in {"+", "-"}
        u == IF signed THEN Tail(t) ELSE t
        dots == { i \in 1..Len(u) : u[i] = "." }
        int == IF dots = {} THEN u ELSE SubSeq(u, 1, (CHOOSE i \in dots : TRUE) - 1)
        frac == IF dots = {} THEN <<>> ELSE SubSeq(u, (CHOOSE i \in dots : TRUE) + 1, Len(u))
        literal == /\ \A i \in 1..Len(u) : u[i] \in Digits \cup {"."}
                   /\ Cardinality(dots) <= 1
                   /\ Len(int) + Len(frac) >= 1
                   /\ Len(frac) <= 2
        value == 100 * DigitsValue(int)
                   + (IF Len(frac) = 0 THEN 0
                      ELSE IF Len(frac) = 1 THEN 10 * DigitValue(frac[1])
                      ELSE DigitsValue(frac))
    IN IF t = <<>> THEN [nan |-> FALSE, hundredths |-> 0]
       ELSE IF literal
       THEN [nan |-> FALSE,
             hundredths |-> IF signed /\ Head(t) = "-" THEN 0 - value ELSE value]
       ELSE [nan |-> TRUE, hundredths |-> 0]

\* The price step of submitReview and onSubmit: ok is false when the
\* handler rejects the text, pence is cleanedPricePence.
cleanPrice(price) ==
    IF trim(price) = <<>> THEN [ok |-> TRUE, pence |-> None]
    ELSE LET n == Number(replacePound(price)) IN
         IF n.nan \/ n.hundredths < 0 THEN [ok |-> FALSE, pence |-> None]
         ELSE [ok |-> TRUE, pence |-> Some(n.hundredths)]

\* Texts typed into the price field.
PriceInputs ==
    { <<>>, <<" ">>, <<"3", ".", "5", "0">>, <<"£", "3">>, <<"£">>, <<"-", "3">>, <<"a">> }

\* Texts typed into the name field.
NameInputs == { <<>>, <<" ">>, <<"V", "a", "n">>, <<" ", "V", " ">> }

\* Stars picked with the star buttons (the buttons offer 1 to 5).
StarButtons == {1, 5}

\* Location identifiers in a link; "" is a link without one.
LocationIds == {"a", "b"}

\* ------------------------------------------------------------------ state
VARIABLES
    view,         \* "init", "mounted" or "unmounted"
    token,        \* NEXT_PUBLIC_MAPBOX_TOKEN is non-empty
    geoSupported, \* "geolocation" in navigator
    loading, error, locations, selected, userPos, geoError,  \* useState cells
    mapRef,       \* index into maps of mapRef.current, 0 for null
    hasFitRef,    \* hasFitRef.current
    maps,         \* every mapboxgl.Map constructed so far, in order
    fetch,        \* "idle", "pending" or "done": the supabase select
    cancelled,    \* the load effect's cancelled flag
    watch,        \* "none", "active" or "cleared": the watchPosition id
    pending,      \* the platform holds a callback queued before clearWatch ran
    issued,       \* the map requests issued by the last event, in order
    fitCalls,     \* calls of fitMapToPins
    fitRequests,  \* calls of fitMapToPins that issued a camera request
    removeCalls,  \* calls of map.remove
    clearCalls,   \* calls of clearWatch
    nearestMemo,  \* the value of the nearest useMemo at the last render
    chip,         \* the distance shown in the "Nearest roll" chip, or None
    placeClient,      \* the place-detail view (PlaceClient)
    addLocationPage,  \* the add-location view (AddLocationPage)
    addClient         \* the rate-a-roll view (AddClient)

vars == << view, token, geoSupported, loading, error, locations,
           selected, userPos, geoError, mapRef, hasFitRef, maps, fetch,
           cancelled, watch, pending, issued, fitCalls, fitRequests,
           removeCalls, clearCalls, nearestMemo, chip,
           placeClient, addLocationPage, addClient >>

\* The views other than the map view.
otherPages == << placeClient, addLocationPage, addClient >>

\* PlaceClient before its first render: the useState initial values; runs
\* are the loadAll calls in flight, started counts the calls made, insert
\* is the ratings insert in flight.
PlaceClientInit ==
    [view |-> "init", locationId |-> "", loading |-> TRUE, error |-> Null,
     location |-> None, ratings |-> <<>>, stars |-> 5, price |-> <<>>,
     submitting |-> FALSE, runs |-> <<>>, started |-> 0, insert |-> None]

\* AddLocationPage before its first render; marker is markerRef.current
\* being non-null, insert the locations insert in flight.
AddLocationInit ==
    [view |-> "init", name |-> <<>>, lat |-> None, lng |-> None, error |-> Null,
     saving |-> FALSE, marker |-> FALSE, insert |-> None]

\* AddClient before its first render; supabase is the client being
\* non-null, load the loadPlace call ("idle", "pending", "done"), route
\* the last router call.
AddClientInit ==
    [view |-> "init", supabase |-> TRUE, locationId |-> "", place |-> None,
     loadingPlace |-> TRUE, error |-> Null, submitting |-> FALSE, stars |-> 5,
     price |-> <<>>, load |-> "idle", cancelled |-> FALSE, insert |-> None,
     route |-> Null]

\* new mapboxgl.Map(...) inside the init effect; geo is the geojson the
\* effect closed over.
NewMap(geo) ==
    [phase |-> "created", removed |-> FALSE, geo |-> geo, source |-> None,
     layer |-> FALSE, click |-> FALSE, camera |-> "initial", padding |-> 0]

\* map.remove(): the map's style (sources, layers), listeners and camera
\* are released; only a loadImage request in flight outlives it.
Removed(mp) ==
    [phase |-> IF mp.phase = "loadingImage" THEN "loadingImage" ELSE "gone",
     removed |-> TRUE, geo |-> mp.geo, source |-> None,
     layer |-> FALSE, click |-> FALSE, camera |-> "none", padding |-> 0]

Live(m) == ~maps[m].removed

\* The effect of one request on the map it is sent to.
ApplyReq(mp, r) ==
    IF mp.removed THEN mp
    ELSE IF r.op = "easeTo"
    THEN [mp EXCEPT !.camera = IF "offset" \in DOMAIN r THEN "selected" ELSE "fitted"]
    ELSE IF r.op = "fitBounds" THEN [mp EXCEPT !.camera = "fitted"]
    ELSE IF r.op = "setPadding" THEN [mp EXCEPT !.padding = r.padding.bottom]
    ELSE mp

RECURSIVE ApplyReqs(_, _)
ApplyReqs(ms, reqs) ==
    IF Len(reqs) = 0 THEN ms
    ELSE ApplyReqs([ms EXCEPT ![Head(reqs).map] = ApplyReq(@, Head(reqs))], Tail(reqs))

selectionEffectPadsFirst(m, sel, h) ==
    IF m = 0 THEN <<>>
    ELSE IF sel # None
    THEN << [op |-> "setPadding", map |-> m,
             padding |-> [top |-> 0, left |-> 0, right |-> 0, bottom |-> RoundHalf(h)]],
            [op |-> "easeTo", map |-> m, center |-> <<sel[1].lng, sel[1].lat>>,
             offset |-> <<0, -120>>, duration |-> 450] >>
    ELSE << [op |-> "setPadding", map |-> m,
             padding |-> [top |-> 0, left |-> 0, right |-> 0, bottom |-> 0]] >>

selectionEffectKeepsPadding(m, sel, h) ==
    IF m = 0 THEN <<>>
    ELSE IF sel # None
    THEN << [op |-> "easeTo", map |-> m, center |-> <<sel[1].lng, sel[1].lat>>,
             offset |-> <<0, -120>>, duration |-> 450],
            [op |-> "setPadding", map |-> m,
             padding |-> [top |-> 0, left |-> 0, right |-> 0, bottom |-> RoundHalf(h)]] >>
    ELSE << [op |-> "setPadding", map |-> m,
             padding |-> [top |-> 0, left |-> 0, right |-> 0, bottom |-> RoundHalf(h)]] >>

\* Selection effect (deps [selected]): requests for map m (0: no map).
selectionEffect(m, sel, h) ==
    IF m = 0 THEN <<>>
    ELSE IF sel # None
    THEN << [op |-> "easeTo", map |-> m, center |-> <<sel[1].lng, sel[1].lat>>,
             offset |-> <<0, -120>>, duration |-> 450],
            [op |-> "setPadding", map |-> m,
             padding |-> [top |-> 0, left |-> 0, right |-> 0, bottom |-> RoundHalf(h)]] >>
    ELSE << [op |-> "setPadding", map |-> m,
             padding |-> [top |-> 0, left |-> 0, right |-> 0, bottom |-> 0]] >>

initMapStaleGeo(ms, ref, tok, geo) ==
    IF ~tok THEN <<ms, ref>>
    ELSE IF ref # 0 THEN <<ms, ref>>
    ELSE <<Append(ms, NewMap(<<>>)), Len(ms) + 1>>

\* Init-map effect body: guarded construction.  Returns <<maps, mapRef>>.
initMap(ms, ref, tok, geo) ==
    IF ~tok THEN <<ms, ref>>
    ELSE IF ref # 0 THEN <<ms, ref>>
    ELSE <<Append(ms, NewMap(geo)), Len(ms) + 1>>

initMapCleanupKeepsMap(ms, m) == <<ms, 0>>

\* Init-map effect cleanup for the map m it created: map.remove();
\* mapRef.current = null.  Returns <<maps, mapRef>>.
initMapCleanup(ms, m) ==
    <<[ms EXCEPT ![m] = Removed(@)], 0>>

Init ==
    /\ view = "init"
    /\ token \in BOOLEAN
    /\ geoSupported \in BOOLEAN
    /\ loading = TRUE
    /\ error = Null
    /\ locations = <<>>
    /\ selected = None
    /\ userPos = None
    /\ geoError = Null
    /\ mapRef = 0
    /\ hasFitRef = FALSE
    /\ maps = <<>>
    /\ fetch = "idle"
    /\ cancelled = FALSE
    /\ watch = "none"
    /\ pending = FALSE
    /\ issued = <<>>
    /\ fitCalls = 0
    /\ fitRequests = 0
    /\ removeCalls = 0
    /\ clearCalls = 0
    /\ nearestMemo = None
    /\ chip = None
    /\ placeClient = PlaceClientInit
    /\ addLocationPage = AddLocationInit
    /\ addClient = AddClientInit

\* First render and the effects of the mount, in declaration order; h is
\* window.innerHeight at that time.
Mount(h) ==
    /\ view = "init"
    /\ view' = "mounted"
    \* watch user location
    /\ IF geoSupported
       THEN watch' = "active" /\ geoError' = geoError
       ELSE watch' = watch /\ geoError' = "Geolocation not supported on this device."
    \* load locations: setLoading(true); setError(null); await select
    /\ loading' = TRUE
    /\ error' = Null
    /\ fetch' = "pending"
    /\ cancelled' = FALSE
    \* init map, then the update-source effect (no source yet), then the
    \* selection effect
    /\ LET r == initMap(maps, mapRef, token, geojson(locations))
           reqs == selectionEffect(r[2], selected, h)
       IN /\ maps' = ApplyReqs(r[1], reqs)
          /\ mapRef' = r[2]
          /\ issued' = reqs
    /\ UNCHANGED << nearestMemo, chip, token, geoSupported, locations, selected, userPos,
                    hasFitRef, pending, fitCalls, fitRequests, removeCalls, clearCalls >>
    /\ UNCHANGED otherPages

updateSourceNoGuard(ms, m, geo, hasFit) ==
    IF m = 0 THEN [maps |-> ms, reqs |-> <<>>, hasFit |-> hasFit, fits |-> 0]
    ELSE LET ms1 == [ms EXCEPT ![m].source = Some(geo)] IN
         IF ~hasFit
         THEN [maps |-> ms1, reqs |-> fitMapToPins(m, geo), hasFit |-> TRUE, fits |-> 1]
         ELSE [maps |-> ms1, reqs |-> <<>>, hasFit |-> hasFit, fits |-> 0]

\* Update-source effect (deps [geojson]) on mapRef.current = m with the
\* render's geojson: setData, and the fit guarded by hasFitRef.
\* Returns the new maps, the requests issued and the new flag.
updateSource(ms, m, geo, hasFit) ==
    IF m = 0 THEN [maps |-> ms, reqs |-> <<>>, hasFit |-> hasFit, fits |-> 0]
    ELSE IF ms[m].source = None
    THEN [maps |-> ms, reqs |-> <<>>, hasFit |-> hasFit, fits |-> 0]
    ELSE LET ms1 == [ms EXCEPT ![m].source = Some(geo)] IN
         IF ~hasFit
         THEN [maps |-> ms1, reqs |-> fitMapToPins(m, geo), hasFit |-> TRUE, fits |-> 1]
         ELSE [maps |-> ms1, reqs |-> <<>>, hasFit |-> hasFit, fits |-> 0]

watchSuccessKeepsError(pos, ge) == [geoError |-> ge, userPos |-> Some(pos)]

\* watchPosition success callback; ge is the current geoError.
watchSuccess(pos, ge) == [geoError |-> Null, userPos |-> Some(pos)]

watchErrorClearsPos(message, up) ==
    [geoError |-> IF message = "" THEN "Unable to get location." ELSE message,
     userPos |-> None]

\* watchPosition error callback; up is the current userPos.
watchError(message, up) ==
    [geoError |-> IF message = "" THEN "Unable to get location." ELSE message,
     userPos |-> up]

\* A callback of the position stream runs: callback cb of the active watch
\* while the view is mounted, or the callback that was already queued
\* when clearWatch was called.  Neither callback tests whether the view
\* is still mounted or the watch still active.
PositionCallback(cb) ==
    /\ \/ watch = "active" /\ pending' = pending
       \/ pending /\ pending' = FALSE
    /\ LET r == IF cb.ok THEN watchSuccess(cb.pos, geoError)
                ELSE watchError(cb.message, userPos)
           n == useMemoNearest(nearestMemo, cb.ok \/ r.userPos # userPos, FALSE,
                               r.userPos, locations)
       IN /\ geoError' = r.geoError
          /\ userPos' = r.userPos
          /\ nearestMemo' = n
          /\ chip' = nearestChip(n, r.userPos)
    /\ issued' = <<>>
    /\ UNCHANGED << view, token, geoSupported, loading, error, locations,
                    selected, mapRef, hasFitRef, maps, fetch, cancelled, watch,
                    fitCalls, fitRequests, removeCalls, clearCalls >>
    /\ UNCHANGED otherPages

\* The platform discards a callback queued before clearWatch.
PositionDropped ==
    /\ pending
    /\ pending' = FALSE
    /\ issued' = <<>>
    /\ UNCHANGED << nearestMemo, chip, view, token, geoSupported, loading, error, locations,
                    selected, userPos, geoError, mapRef, hasFitRef, maps, fetch,
                    cancelled, watch, fitCalls, fitRequests, removeCalls, clearCalls >>
    /\ UNCHANGED otherPages

loadSuccessKeepsLoading(res, err, locs, ld, canc) ==
    IF canc THEN [error |-> err, locations |-> locs, loading |-> ld, applied |-> FALSE]
    ELSE IF res.error # Null
    THEN [error |-> res.error, locations |-> <<>>, loading |-> FALSE, applied |-> TRUE]
    ELSE [error |-> err,
          locations |-> IF res.data = None THEN <<>> ELSE res.data[1],
          loading |-> ld, applied |-> TRUE]

loadIgnoresCancelled(res, err, locs, ld, canc) ==
    IF res.error # Null
    THEN [error |-> res.error, locations |-> <<>>, loading |-> FALSE, applied |-> TRUE]
    ELSE [error |-> err,
          locations |-> IF res.data = None THEN <<>> ELSE res.data[1],
          loading |-> FALSE, applied |-> TRUE]

loadErrorKeepsLoading(res, err, locs, ld, canc) ==
    IF canc THEN [error |-> err, locations |-> locs, loading |-> ld, applied |-> FALSE]
    ELSE IF res.error # Null
    THEN [error |-> res.error, locations |-> <<>>, loading |-> ld, applied |-> TRUE]
    ELSE [error |-> err,
          locations |-> IF res.data = None THEN <<>> ELSE res.data[1],
          loading |-> FALSE, applied |-> TRUE]

\* load() after the await: the new error, locations and loading.
load(res, err, locs, ld, canc) ==
    IF canc THEN [error |-> err, locations |-> locs, loading |-> ld, applied |-> FALSE]
    ELSE IF res.error # Null
    THEN [error |-> res.error, locations |-> <<>>, loading |-> FALSE, applied |-> TRUE]
    ELSE [error |-> err,
          locations |-> IF res.data = None THEN <<>> ELSE res.data[1],
          loading |-> FALSE, applied |-> TRUE]

\* The select resolves.  When load() applies the result, locations is a
\* new array, geojson is recomputed, and the effects with geojson among
\* their deps run again: init-map cleanup, init-map body, update-source.
FetchDone(res) ==
    /\ fetch = "pending"
    /\ fetch' = "done"
    /\ LET r == load(res, error, locations, loading, cancelled)
           n == useMemoNearest(nearestMemo, FALSE, r.applied, userPos, r.locations)
       IN
       /\ error' = r.error
       /\ locations' = r.locations
       /\ loading' = r.loading
       /\ nearestMemo' = n
       /\ chip' = nearestChip(n, userPos)
       /\ IF r.applied
          THEN LET c == IF mapRef # 0 THEN initMapCleanup(maps, mapRef) ELSE <<maps, mapRef>>
                   i == initMap(c[1], c[2], token, geojson(r.locations))
                   u == updateSource(i[1], i[2], geojson(r.locations), hasFitRef)
               IN /\ maps' = ApplyReqs(u.maps, u.reqs)
                  /\ mapRef' = i[2]
                  /\ hasFitRef' = u.hasFit
                  /\ issued' = u.reqs
                  /\ fitCalls' = fitCalls + u.fits
                  /\ fitRequests' = fitRequests + (IF u.reqs # <<>> THEN 1 ELSE 0)
                  /\ removeCalls' = removeCalls + (IF mapRef # 0 THEN 1 ELSE 0)
          ELSE /\ issued' = <<>>
               /\ UNCHANGED << maps, mapRef, hasFitRef, fitCalls, fitRequests, removeCalls >>
    /\ UNCHANGED << view, token, geoSupported, selected, userPos,
                    geoError, cancelled, watch, pending, clearCalls >>
    /\ UNCHANGED otherPages

\* The "load" event of a live map: map.loadImage is started.
MapLoad(m) ==
    /\ Live(m)
    /\ maps[m].phase = "created"
    /\ maps' = [maps EXCEPT ![m].phase = "loadingImage"]
    /\ issued' = <<>>
    /\ UNCHANGED << nearestMemo, chip, view, token, geoSupported, loading, error, locations,
                    selected, userPos, geoError, mapRef, hasFitRef, fetch, cancelled,
                    watch, pending, fitCalls, fitRequests, removeCalls, clearCalls >>
    /\ UNCHANGED otherPages

imageLoadedResetsFlag(mp, m) ==
    [map |-> IF mp.removed THEN [mp EXCEPT !.phase = "gone"]
             ELSE [mp EXCEPT !.phase = "ready",
                             !.source = IF mp.source = None THEN Some(mp.geo) ELSE mp.source,
                             !.layer = TRUE,
                             !.click = TRUE],
     reqs |-> fitMapToPins(m, mp.geo),
     hasFit |-> FALSE]

\* The loadImage callback of map m with an image: image, source, layer,
\* fit, flag, click subscription.  Returns the new map record, the
\* requests and the new hasFitRef.current.
\* On a removed map the calls reach a released map and leave nothing.
imageLoaded(mp, m) ==
    [map |-> IF mp.removed THEN [mp EXCEPT !.phase = "gone"]
             ELSE [mp EXCEPT !.phase = "ready",
                             !.source = IF mp.source = None THEN Some(mp.geo) ELSE mp.source,
                             !.layer = TRUE,
                             !.click = TRUE],
     reqs |-> fitMapToPins(m, mp.geo),
     hasFit |-> TRUE]

imageFailedFallsThrough(mp) ==
    IF mp.removed THEN [mp EXCEPT !.phase = "gone"]
    ELSE [mp EXCEPT !.phase = "imageFailed",
                    !.source = Some(mp.geo),
                    !.layer = TRUE,
                    !.click = TRUE]

\* loadImage callback, failure branch: the callback returns before any
\* image, source, layer or handler is added to map mp.
imageFailed(mp) ==
    IF mp.removed THEN [mp EXCEPT !.phase = "gone"]
    ELSE [mp EXCEPT !.phase = "imageFailed"]

\* The loadImage callback of map m.  outcome: "error" (err or no image),
\* "ok", or, on a map that was removed meanwhile, "throws" (the first
\* call on the removed map raises).
ImageCallback(m, outcome) ==
    /\ maps[m].phase = "loadingImage"
    /\ outcome = "throws" => maps[m].removed
    /\ IF outcome = "error"
       THEN /\ error' = "Could not load roll-pin.png. Check /public/roll-pin.png"
            /\ maps' = [maps EXCEPT ![m] = imageFailed(maps[m])]
            /\ issued' = <<>>
            /\ UNCHANGED << hasFitRef, fitCalls, fitRequests >>
       ELSE IF outcome = "throws"
       THEN /\ maps' = [maps EXCEPT ![m].phase = "gone"]
            /\ issued' = <<>>
            /\ UNCHANGED << error, hasFitRef, fitCalls, fitRequests >>
       ELSE LET r == imageLoaded(maps[m], m) IN
            /\ maps' = ApplyReqs([maps EXCEPT ![m] = r.map], r.reqs)
            /\ issued' = r.reqs
            /\ hasFitRef' = r.hasFit
            /\ fitCalls' = fitCalls + 1
            /\ fitRequests' = fitRequests + (IF r.reqs # <<>> THEN 1 ELSE 0)
            /\ error' = error
    /\ UNCHANGED << nearestMemo, chip, view, token, geoSupported, loading, locations,
                    selected, userPos, geoError, mapRef, fetch, cancelled, watch,
                    pending, removeCalls, clearCalls >>
    /\ UNCHANGED otherPages

clickHandlerClearsError(f, sel, err) ==
    LET id == IdString(f.id) IN
    IF InvalidId(id)
    THEN [selected |-> sel,
          error |-> "This pin has no valid id (cannot open reviews).",
          opened |-> FALSE]
    ELSE [selected |-> Some([id |-> id, name |-> f.name, description |-> f.description,
                             lng |-> f.lng, lat |-> f.lat]),
          error |-> Null, opened |-> TRUE]

clickHandlerSwapsCoords(f, sel, err) ==
    LET id == IdString(f.id) IN
    IF InvalidId(id)
    THEN [selected |-> sel,
          error |-> "This pin has no valid id (cannot open reviews).",
          opened |-> FALSE]
    ELSE [selected |-> Some([id |-> id, name |-> f.name, description |-> f.description,
                             lng |-> f.lat, lat |-> f.lng]),
          error |-> err, opened |-> TRUE]

\* Click handler on places-layer for the tapped feature f; sel and err
\* are the current selected and error.
clickHandler(f, sel, err) ==
    LET id == IdString(f.id) IN
    IF InvalidId(id)
    THEN [selected |-> sel,
          error |-> "This pin has no valid id (cannot open reviews).",
          opened |-> FALSE]
    ELSE [selected |-> Some([id |-> id, name |-> f.name, description |-> f.description,
                             lng |-> f.lng, lat |-> f.lat]),
          error |-> err, opened |-> TRUE]

\* The features a tap can hit: those of the places source of the live
\* map that has the layer and the click subscription.
Rendered ==
    IF mapRef # 0 /\ maps[mapRef].click /\ maps[mapRef].layer /\ maps[mapRef].source # None
    THEN { maps[mapRef].source[1][i] : i \in 1..Len(maps[mapRef].source[1]) }
    ELSE {}

\* A tap on rendered feature f; h is window.innerHeight at that time.
\* setSelected gets a fresh object, so the selection effect runs after
\* every accepted tap.
Tap(f, h) ==
    /\ view = "mounted"
    /\ f \in Rendered
    /\ LET r == clickHandler(f, selected, error)
           reqs == IF r.opened THEN selectionEffect(mapRef, r.selected, h) ELSE <<>>
       IN /\ selected' = r.selected
          /\ error' = r.error
          /\ issued' = reqs
          /\ maps' = ApplyReqs(maps, reqs)
    /\ UNCHANGED << nearestMemo, chip, view, token, geoSupported, loading, locations, userPos,
                    geoError, mapRef, hasFitRef, fetch, cancelled, watch, pending,
                    fitCalls, fitRequests, removeCalls, clearCalls >>
    /\ UNCHANGED otherPages

\* The close button of the bottom sheet: setSelected(null); h is
\* window.innerHeight at that time.
Close(h) ==
    /\ view = "mounted"
    /\ token
    /\ selected # None
    /\ selected' = None
    /\ LET reqs == selectionEffect(mapRef, None, h)
       IN /\ issued' = reqs
          /\ maps' = ApplyReqs(maps, reqs)
    /\ UNCHANGED << nearestMemo, chip, view, token, geoSupported, loading, error, locations,
                    userPos, geoError, mapRef, hasFitRef, fetch, cancelled, watch,
                    pending, fitCalls, fitRequests, removeCalls, clearCalls >>
    /\ UNCHANGED otherPages

\* Window resize / orientationchange: mapRef.current?.resize().
Resize ==
    /\ view = "mounted"
    /\ issued' = IF mapRef # 0 THEN << [op |-> "resize", map |-> mapRef] >> ELSE <<>>
    /\ UNCHANGED << nearestMemo, chip, view, token, geoSupported, loading, error, locations, selected,
                    userPos, geoError, mapRef, hasFitRef, maps, fetch, cancelled,
                    watch, pending, fitCalls, fitRequests, removeCalls, clearCalls >>
    /\ UNCHANGED otherPages

\* The user drags or zooms the live map.
UserPan ==
    /\ view = "mounted"
    /\ mapRef # 0
    /\ maps' = [maps EXCEPT ![mapRef].camera = "user"]
    /\ issued' = <<>>
    /\ UNCHANGED << nearestMemo, chip, view, token, geoSupported, loading, error, locations,
                    selected, userPos, geoError, mapRef, hasFitRef, fetch, cancelled,
                    watch, pending, fitCalls, fitRequests, removeCalls, clearCalls >>
    /\ UNCHANGED otherPages

\* Unmount: the cleanups in declaration order: clearWatch(id),
\* cancelled = true, map.remove() and mapRef.current = null.  At the
\* clearWatch the platform may already have queued one more callback.
\* The useState cells are left as they are.
UnmountCleanups ==
    /\ view = "mounted"
    /\ view' = "unmounted"
    /\ IF watch = "active"
       THEN /\ watch' = "cleared"
            /\ clearCalls' = clearCalls + 1
            /\ pending' \in BOOLEAN
       ELSE UNCHANGED << watch, clearCalls, pending >>
    /\ cancelled' = TRUE
    /\ LET c == IF mapRef # 0 THEN initMapCleanup(maps, mapRef) ELSE <<maps, mapRef>>
       IN /\ maps' = c[1]
          /\ mapRef' = c[2]
    /\ removeCalls' = removeCalls + (IF mapRef # 0 THEN 1 ELSE 0)
    /\ issued' = <<>>
    /\ UNCHANGED << nearestMemo, chip, token, geoSupported, hasFitRef, fetch,
                    fitCalls, fitRequests >>
    /\ UNCHANGED otherPages

UnmountClearsSelection ==
    /\ UnmountCleanups
    /\ selected' = None
    /\ UNCHANGED << loading, error, locations, userPos, geoError >>

Unmount ==
    /\ UnmountCleanups
    /\ UNCHANGED << loading, error, locations, selected, userPos, geoError >>

Next ==
    \/ \E h \in Heights : Mount(h)
    \/ \E cb \in Callbacks : PositionCallback(cb)
    \/ PositionDropped
    \/ \E res \in FetchResults : FetchDone(res)
    \/ \E m \in 1..Len(maps) : MapLoad(m)
    \/ \E m \in 1..Len(maps), outcome \in {"error", "ok", "throws"} : ImageCallback(m, outcome)
    \/ \E f \in Rendered, h \in Heights : Tap(f, h)
    \/ \E h \in Heights : Close(h)
    \/ Resize
    \/ UserPan
    \/ Unmount

Spec == Init /\ [][Next]_vars

\* ---------------------------------------------------------- other views
\* The state of the map view.
mapPage == << view, token, geoSupported, loading, error, locations, selected,
              userPos, geoError, mapRef, hasFitRef, maps, fetch, cancelled,
              watch, pending, issued, fitCalls, fitRequests, removeCalls,
              clearCalls, nearestMemo, chip >>

\* No view has been opened yet.  The views share no state, so a
\* behaviour follows one of them from its first render on.
NoPageMounted ==
    /\ view = "init"
    /\ placeClient.view = "init"
    /\ addLocationPage.view = "init"
    /\ addClient.view = "init"

\* Sequence s without its element i.
RemoveAt(s, i) == SubSeq(s, 1, i - 1) \o SubSeq(s, i + 1, Len(s))

\* Outcomes of the location_stats select for location id.
StatsResults(id) ==
    { [error |-> "stats failed", data |-> None],
      [error |-> Null, data |-> Some([location_id |-> id])] }

\* Outcomes of the ratings select for location id.
RatingsResults(id) ==
    { [error |-> "ratings failed", data |-> None],
      [error |-> Null, data |-> None],
      [error |-> Null, data |-> Some(<< [location_id |-> id] >>)] }

\* Outcomes of an insert.
InsertResults == { [error |-> Null], [error |-> "insert failed"] }

\* loadAll() up to its first await; id is the locationId of the render
\* whose closure makes the call.
loadAllStart(pc, id) ==
    [pc EXCEPT !.loading = TRUE,
               !.error = Null,
               !.started = @ + 1,
               !.runs = Append(@, [id |-> id, stage |-> "stats", n |-> pc.started + 1])]

\* loadAll() of run i after the location_stats select resolved with res.
loadAllStats(pc, i, res) ==
    IF res.error # Null
    THEN [pc EXCEPT !.error = res.error,
                    !.location = None,
                    !.ratings = <<>>,
                    !.loading = FALSE,
                    !.runs = RemoveAt(@, i)]
    ELSE [pc EXCEPT !.location = res.data,
                    !.runs[i].stage = "ratings"]

\* loadAll() of run i after the ratings select resolved with res.
loadAllRatings(pc, i, res) ==
    [pc EXCEPT !.error = IF res.error # Null THEN res.error ELSE @,
               !.ratings = IF res.error # Null \/ res.data = None THEN <<>> ELSE res.data[1],
               !.loading = FALSE,
               !.runs = RemoveAt(@, i)]

\* submitReview up to its await: validation, payload, insert.
submitReview(pc) ==
    LET pc0 == [pc EXCEPT !.error = Null]
        p == cleanPrice(pc.price)
    IN IF pc.locationId = "" THEN pc0
       ELSE IF pc.stars < 1 \/ pc.stars > 5
       THEN [pc0 EXCEPT !.error = "Stars must be between 1 and 5."]
       ELSE IF ~p.ok
       THEN [pc0 EXCEPT !.error = "Price looks invalid. Use a number like 3.50"]
       ELSE [pc0 EXCEPT !.submitting = TRUE,
                        !.insert = Some([location_id |-> pc.locationId,
                                         stars |-> pc.stars,
                                         price_pence |-> p.pence])]

\* submitReview after the insert resolved with res.
submitReviewDone(pc, res) ==
    IF res.error # Null
    THEN [pc EXCEPT !.error = res.error, !.submitting = FALSE, !.insert = None]
    ELSE loadAllStart([pc EXCEPT !.stars = 5, !.price = <<>>, !.submitting = FALSE,
                                 !.insert = None],
                      pc.insert[1].location_id)

\* The review form of PlaceClient is on screen.
PlaceFormShown ==
    /\ placeClient.view = "mounted"
    /\ placeClient.locationId # ""
    /\ ~placeClient.loading
    /\ placeClient.error = Null
    /\ placeClient.location # None

\* First render of PlaceClient with prop locationId = id and its effect.
PlaceMount(id) ==
    /\ NoPageMounted
    /\ placeClient.view = "init"
    /\ placeClient' =
         LET pc == [placeClient EXCEPT !.view = "mounted", !.locationId = id]
         IN IF id = "" THEN pc ELSE loadAllStart(pc, id)
    /\ UNCHANGED << mapPage, addLocationPage, addClient >>

\* The locationId prop changes to id: the effect runs again.
PlacePropChange(id) ==
    /\ placeClient.view = "mounted"
    /\ id # placeClient.locationId
    /\ placeClient.started + (IF placeClient.insert # None THEN 1 ELSE 0) < MaxLoads
    /\ placeClient' = loadAllStart([placeClient EXCEPT !.locationId = id], id)
    /\ UNCHANGED << mapPage, addLocationPage, addClient >>

PlaceStatsDone(i, res) ==
    /\ placeClient.view # "init"
    /\ i \in 1..Len(placeClient.runs)
    /\ placeClient.runs[i].stage = "stats"
    /\ res \in StatsResults(placeClient.runs[i].id)
    /\ placeClient' = loadAllStats(placeClient, i, res)
    /\ UNCHANGED << mapPage, addLocationPage, addClient >>

PlaceRatingsDone(i, res) ==
    /\ placeClient.view # "init"
    /\ i \in 1..Len(placeClient.runs)
    /\ placeClient.runs[i].stage = "ratings"
    /\ res \in RatingsResults(placeClient.runs[i].id)
    /\ placeClient' = loadAllRatings(placeClient, i, res)
    /\ UNCHANGED << mapPage, addLocationPage, addClient >>

PlaceSetStars(n) ==
    /\ PlaceFormShown
    /\ placeClient' = [placeClient EXCEPT !.stars = n]
    /\ UNCHANGED << mapPage, addLocationPage, addClient >>

PlaceSetPrice(p) ==
    /\ PlaceFormShown
    /\ placeClient' = [placeClient EXCEPT !.price = p]
    /\ UNCHANGED << mapPage, addLocationPage, addClient >>

\* The form is submitted; the button is disabled while submitting.
PlaceSubmit ==
    /\ PlaceFormShown
    /\ ~placeClient.submitting
    /\ placeClient.started < MaxLoads
    /\ placeClient' = submitReview(placeClient)
    /\ UNCHANGED << mapPage, addLocationPage, addClient >>

PlaceInsertDone(res) ==
    /\ placeClient.insert # None
    /\ placeClient' = submitReviewDone(placeClient, res)
    /\ UNCHANGED << mapPage, addLocationPage, addClient >>

\* PlaceClient unmounts; it registers no cleanup.
PlaceUnmount ==
    /\ placeClient.view = "mounted"
    /\ placeClient' = [placeClient EXCEPT !.view = "unmounted"]
    /\ UNCHANGED << mapPage, addLocationPage, addClient >>

\* Map click handler of AddLocationPage at pos: setLng, setLat, the pin.
mapClick(al, pos) ==
    [al EXCEPT !.lat = Some(pos.lat), !.lng = Some(pos.lng), !.marker = TRUE]

\* onSave up to its await: validation and insert.
onSave(al) ==
    LET a0 == [al EXCEPT !.error = Null] IN
    IF trim(al.name) = <<>>
    THEN [a0 EXCEPT !.error = "Please add a name for the place."]
    ELSE IF al.lat = None \/ al.lng = None
    THEN [a0 EXCEPT !.error = "Please click the map to drop a pin."]
    ELSE [a0 EXCEPT !.saving = TRUE,
                    !.insert = Some([name |-> trim(al.name),
                                     lat |-> al.lat[1], lng |-> al.lng[1]])]

\* onSave after the insert resolved with res.
onSaveDone(al, res) ==
    IF res.error # Null
    THEN [al EXCEPT !.error = res.error, !.saving = FALSE, !.insert = None]
    ELSE [al EXCEPT !.name = <<>>, !.lat = None, !.lng = None, !.marker = FALSE,
                    !.saving = FALSE, !.insert = None]

AddLocationMount ==
    /\ NoPageMounted
    /\ addLocationPage.view = "init"
    /\ addLocationPage' = [addLocationPage EXCEPT !.view = "mounted"]
    /\ UNCHANGED << mapPage, placeClient, addClient >>

AddLocationSetName(nm) ==
    /\ addLocationPage.view = "mounted"
    /\ addLocationPage' = [addLocationPage EXCEPT !.name = nm]
    /\ UNCHANGED << mapPage, placeClient, addClient >>

\* A click on the map, which exists only with a token.
AddLocationMapClick(pos) ==
    /\ addLocationPage.view = "mounted"
    /\ token
    /\ addLocationPage' = mapClick(addLocationPage, pos)
    /\ UNCHANGED << mapPage, placeClient, addClient >>

\* The save button; it is disabled while saving.
AddLocationSave ==
    /\ addLocationPage.view = "mounted"
    /\ ~addLocationPage.saving
    /\ addLocationPage' = onSave(addLocationPage)
    /\ UNCHANGED << mapPage, placeClient, addClient >>

AddLocationInsertDone(res) ==
    /\ addLocationPage.insert # None
    /\ addLocationPage' = onSaveDone(addLocationPage, res)
    /\ UNCHANGED << mapPage, placeClient, addClient >>

\* Unmount: the map effect's cleanup removes the pin.
AddLocationUnmount ==
    /\ addLocationPage.view = "mounted"
    /\ addLocationPage' = [addLocationPage EXCEPT !.view = "unmounted", !.marker = FALSE]
    /\ UNCHANGED << mapPage, placeClient, addClient >>

\* Outcomes of the locations select of loadPlace for location id.
PlaceResults(id) ==
    { [error |-> "place failed", data |-> None],
      [error |-> Null, data |-> Some([id |-> id])] }

\* First render of AddClient and its effects: the gatekeeper, then
\* loadPlace up to its await.
addClientEffects(ac) ==
    LET g == IF ac.locationId = "" THEN [ac EXCEPT !.route = "replace /map"] ELSE ac
        l == [g EXCEPT !.error = Null]
    IN IF ac.locationId = "" THEN l
       ELSE IF ~ac.supabase
       THEN [l EXCEPT !.error = "Supabase is not configured. Check NEXT_PUBLIC_SUPABASE_URL / ANON_KEY in Vercel.",
                      !.loadingPlace = FALSE]
       ELSE [l EXCEPT !.loadingPlace = TRUE, !.load = "pending"]

\* loadPlace after the select resolved with res.
loadPlace(ac, res) ==
    IF ac.cancelled THEN [ac EXCEPT !.load = "done"]
    ELSE IF res.error # Null
    THEN [ac EXCEPT !.error = res.error, !.place = None, !.loadingPlace = FALSE,
                    !.load = "done"]
    ELSE [ac EXCEPT !.place = res.data, !.loadingPlace = FALSE, !.load = "done"]

\* onSubmit up to its await: validation, payload, insert.
onSubmit(ac) ==
    LET a0 == [ac EXCEPT !.error = Null]
        p == cleanPrice(ac.price)
    IN IF ac.locationId = "" THEN a0
       ELSE IF ~ac.supabase
       THEN [a0 EXCEPT !.error = "Supabase is not configured. Check NEXT_PUBLIC_SUPABASE_URL / ANON_KEY in Vercel."]
       ELSE IF ac.stars < 1 \/ ac.stars > 5
       THEN [a0 EXCEPT !.error = "Stars must be between 1 and 5."]
       ELSE IF ~p.ok
       THEN [a0 EXCEPT !.error = "Price looks invalid. Use a number like 3.50"]
       ELSE [a0 EXCEPT !.submitting = TRUE,
                       !.insert = Some([location_id |-> ac.locationId,
                                        stars |-> ac.stars,
                                        price_pence |-> p.pence])]

\* onSubmit after the insert resolved with res.
onSubmitDone(ac, res) ==
    IF res.error # Null
    THEN [ac EXCEPT !.error = res.error, !.submitting = FALSE, !.insert = None]
    ELSE [ac EXCEPT !.insert = None, !.route = "push /place/" \o ac.insert[1].location_id]

\* First render of AddClient for the link's locationId; sb is the
\* supabase client being configured.
AddClientMount(id, sb) ==
    /\ NoPageMounted
    /\ addClient.view = "init"
    /\ addClient' = addClientEffects([addClient EXCEPT !.view = "mounted",
                                                       !.locationId = id,
                                                       !.supabase = sb])
    /\ UNCHANGED << mapPage, placeClient, addLocationPage >>

AddClientLoadDone(res) ==
    /\ addClient.load = "pending"
    /\ res \in PlaceResults(addClient.locationId)
    /\ addClient' = loadPlace(addClient, res)
    /\ UNCHANGED << mapPage, placeClient, addLocationPage >>

\* The form of AddClient is on screen.
AddFormShown == addClient.view = "mounted" /\ addClient.locationId # ""

AddClientSetStars(n) ==
    /\ AddFormShown
    /\ addClient' = [addClient EXCEPT !.stars = n]
    /\ UNCHANGED << mapPage, placeClient, addLocationPage >>

AddClientSetPrice(p) ==
    /\ AddFormShown
    /\ addClient' = [addClient EXCEPT !.price = p]
    /\ UNCHANGED << mapPage, placeClient, addLocationPage >>

\* The form is submitted; the button is disabled while submitting.
AddClientSubmit ==
    /\ AddFormShown
    /\ ~addClient.submitting
    /\ addClient' = onSubmit(addClient)
    /\ UNCHANGED << mapPage, placeClient, addLocationPage >>

AddClientInsertDone(res) ==
    /\ addClient.insert # None
    /\ addClient' = onSubmitDone(addClient, res)
    /\ UNCHANGED << mapPage, placeClient, addLocationPage >>

\* Unmount: the loadPlace effect's cleanup sets cancelled.
AddClientUnmount ==
    /\ addClient.view = "mounted"
    /\ addClient' = [addClient EXCEPT !.view = "unmounted", !.cancelled = TRUE]
    /\ UNCHANGED << mapPage, placeClient, addLocationPage >>

\* The three views with their loads and writes; the map view stays
\* unmounted.
InitPages == Init /\ geoSupported = TRUE

NextPages ==
    \/ \E id \in LocationIds \cup {""} : PlaceMount(id)
    \/ \E id \in LocationIds : PlacePropChange(id)
    \/ \E i \in 1..Len(placeClient.runs) :
         \E res \in StatsResults(placeClient.runs[i].id) : PlaceStatsDone(i, res)
    \/ \E i \in 1..Len(placeClient.runs) :
         \E res \in RatingsResults(placeClient.runs[i].id) : PlaceRatingsDone(i, res)
    \/ \E n \in StarButtons : PlaceSetStars(n)
    \/ \E p \in PriceInputs : PlaceSetPrice(p)
    \/ PlaceSubmit
    \/ \E res \in InsertResults : PlaceInsertDone(res)
    \/ PlaceUnmount
    \/ AddLocationMount
    \/ \E nm \in NameInputs : AddLocationSetName(nm)
    \/ \E pos \in Positions : AddLocationMapClick(pos)
    \/ AddLocationSave
    \/ \E res \in InsertResults : AddLocationInsertDone(res)
    \/ AddLocationUnmount
    \/ \E id \in LocationIds \cup {""}, sb \in BOOLEAN : AddClientMount(id, sb)
    \/ \E res \in PlaceResults(addClient.locationId) : AddClientLoadDone(res)
    \/ \E n \in StarButtons : AddClientSetStars(n)
    \/ \E p \in PriceInputs : AddClientSetPrice(p)
    \/ AddClientSubmit
    \/ \E res \in InsertResults : AddClientInsertDone(res)
    \/ AddClientUnmount

SpecPages == InitPages /\ [][NextPages]_vars

\* The view without a Mapbox token: no map is ever constructed, the watch
\* and the fetch run as usual.  The fetch draws from the wider row domain.
InitData == Init /\ token = FALSE

NextData ==
    \/ \E h \in Heights : Mount(h)
    \/ \E cb \in Callbacks : PositionCallback(cb)
    \/ PositionDropped
    \/ \E res \in WideFetchResults : FetchDone(res)
    \/ Resize
    \/ Unmount

SpecData == InitData /\ [][NextData]_vars

\* Distances (centimetres) handed to the distance chip: the neighbourhood
\* of the metre/kilometre threshold, rounding ties of both branches, and
\* the extremes.
DistanceInputs ==
    (99890..99960) \cup (99995..100005)
      \cup { 0, 49, 50, 51, 149, 150, 151, 50000, 99900, 104999, 105000,
              115000, 125000, 149999, 150000, 150001, 999999, 1000001,
              12345678, 433660214 }

\* A render of the mounted view in which the nearest memo holds distance d
\* for the position and the single row, before the chip is drawn.
InitFormat ==
    /\ view = "mounted"
    /\ token = FALSE
    /\ geoSupported = TRUE
    /\ loading = FALSE
    /\ error = Null
    /\ locations \in { <<r>> : r \in { x \in RowDomain : ValidCoord(x) } }
    /\ selected = None
    /\ userPos \in { Some(p) : p \in Positions }
    /\ geoError = Null
    /\ mapRef = 0
    /\ hasFitRef = FALSE
    /\ maps = <<>>
    /\ fetch = "done"
    /\ cancelled = FALSE
    /\ watch = "active"
    /\ pending = FALSE
    /\ issued = <<>>
    /\ fitCalls = 0
    /\ fitRequests = 0
    /\ removeCalls = 0
    /\ clearCalls = 0
    /\ nearestMemo \in { Some([loc |-> locations[1], meters |-> d]) : d \in DistanceInputs }
    /\ chip = None
    /\ placeClient = PlaceClientInit
    /\ addLocationPage = AddLocationInit
    /\ addClient = AddClientInit

\* The JSX of the nearest chip: {nearest && userPos && (... formatDistance(nearest.meters) ...)}
RenderChip ==
    /\ chip = None
    /\ chip' = nearestChip(nearestMemo, userPos)
    /\ UNCHANGED << view, token, geoSupported, loading, error, locations, selected,
                    userPos, geoError, mapRef, hasFitRef, maps, fetch, cancelled,
                    watch, pending, issued, fitCalls, fitRequests, removeCalls,
                    clearCalls, nearestMemo >>
    /\ UNCHANGED otherPages

NextFormat == RenderChip

SpecFormat == InitFormat /\ [][NextFormat]_vars

\* ----------------------------------------------------------------- claims
LiveMaps == { m \in 1..Len(maps) : Live(m) }

ZeroPadding(m) ==
    [op |-> "setPadding", map |-> m,
     padding |-> [top |-> 0, left |-> 0, right |-> 0, bottom |-> 0]]

\* The identifier of feature f is a non-empty string other than
\* "undefined" and "null".
UsableId(f) == f.id.kind = "string" /\ f.id.text \notin {"", "undefined", "null"}

\* The identifier of feature f is missing, empty, "undefined" or "null".
UnusableId(f) ==
    \/ f.id.kind \in {"null", "undefined"}
    \/ f.id.kind = "string" /\ f.id.text \in {"", "undefined", "null"}

\* The step is the locations fetch resolving for the mounted view.
FetchApplied == view = "mounted" /\ fetch = "pending" /\ fetch' = "done"

\* C1: during one mount the automatic fit is issued once only: once the
\* view has called fitMapToPins, no later step issues a fit request, and
\* the fetch result changing the point collection leaves the camera of
\* the map the user sees as it was.
C1_FitOnceCameraKept ==
    [][ /\ (fitCalls >= 1 => fitRequests' = fitRequests /\ fitCalls' = fitCalls)
        /\ (FetchApplied /\ fitCalls >= 1 /\ mapRef # 0 =>
              /\ mapRef' # 0
              /\ maps'[mapRef'].camera = maps[mapRef].camera) ]_vars

\* C2: during one mount exactly one map instance is created and it is
\* removed exactly once, at unmount: while the view is mounted no map has
\* been removed and no second one created.
C2_OneMapPerMount ==
    /\ Len(maps) <= 1
    /\ removeCalls <= 1
    /\ (view = "mounted" => removeCalls = 0)
    /\ (view = "mounted" /\ token => Len(maps) = 1)

\* C3: at most one map instance is live, and mapRef is null exactly when
\* no map is live (otherwise it holds the live one).
C3_AtMostOneLiveMap ==
    /\ Cardinality(LiveMaps) <= 1
    /\ (mapRef = 0 <=> LiveMaps = {})
    /\ (mapRef # 0 => LiveMaps = {mapRef})

\* C3 witness: a second map was constructed after the first was removed.
C3_Witness == Len(maps) = 2 /\ mapRef = 2 /\ maps[1].removed

\* C4: a tap on a rendered point with a usable identifier sets Selection
\* to Open with that point's id, name, description and coordinate,
\* whatever Selection was before.
C4_TapOpens ==
    [][ \A f \in Rendered :
          ((\E h \in Heights : Tap(f, h)) /\ UsableId(f)) =>
            selected' = Some([id |-> f.id.text, name |-> f.name,
                              description |-> f.description,
                              lng |-> f.lng, lat |-> f.lat]) ]_vars

\* C4 witness: a tap has opened the selection on a rendered point of the
\* live map and the selection effect has run for it.
C4_Witness ==
    /\ selected # None
    /\ mapRef # 0
    /\ \E f \in Rendered : UsableId(f) /\ f.id.text = selected[1].id
                            /\ f.lng = selected[1].lng /\ f.lat = selected[1].lat
    /\ Len(issued) = 2 /\ issued[1].op = "easeTo"

\* C5: a tap on a point whose identifier is missing, empty, "undefined"
\* or "null" leaves Selection unchanged, issues no request and sets a
\* non-empty error message.
C5_TapRejected ==
    [][ \A f \in Rendered :
          ((\E h \in Heights : Tap(f, h)) /\ UnusableId(f)) =>
            /\ selected' = selected
            /\ issued' = <<>>
            /\ error' \notin {Null, ""} ]_vars

\* C5 witness: a tap was rejected while a selection was open.
C5_Witness ==
    /\ error = "This pin has no valid id (cannot open reviews)."
    /\ selected # None
    /\ issued = <<>>
    /\ \E f \in Rendered : UnusableId(f)

\* C6: the close action while Selection is Open sets Selection to None
\* and, when a map is live, issues exactly one request, a setPadding with
\* all four sides zero (so no pan request).
C6_CloseClearsPadding ==
    [][ ((\E h \in Heights : Close(h)) /\ selected # None) =>
          /\ selected' = None
          /\ (mapRef # 0 => issued' = << ZeroPadding(mapRef) >>) ]_vars

\* C6 witness: the sheet was opened by a tap and then closed.
C6_Witness ==
    /\ selected = None
    /\ mapRef # 0
    /\ maps[mapRef].camera = "selected"
    /\ maps[mapRef].padding = 0
    /\ issued = << ZeroPadding(mapRef) >>

\* C7: a tap on the point that is already the Open selection changes
\* nothing and issues no pan or setPadding request; a tap on a different
\* point replaces the selection and issues the pan and padding requests.
C7_SameTapNoOp ==
    [][ \A f \in Rendered :
          ((\E h \in Heights : Tap(f, h)) /\ UsableId(f) /\ selected # None) =>
            IF selected[1].id = f.id.text
            THEN selected' = selected /\ issued' = <<>>
            ELSE /\ selected'[1].id = f.id.text
                 /\ Len(issued') = 2
                 /\ issued'[1].op = "easeTo"
                 /\ issued'[2].op = "setPadding" ]_vars

\* C8: Selection is written only by the tap handler and the close action;
\* every other step (fetch completion, position callback, image callback,
\* resize, map removal or creation, unmount) leaves it unchanged.
C8_SelectionOwned ==
    [][ selected' # selected =>
          \E h \in Heights : (\E f \in Rendered : Tap(f, h)) \/ Close(h) ]_vars

\* C8 witness: the view was unmounted (its map removed) and a position
\* was published while the selection stayed open.
C8_Witness ==
    /\ selected # None
    /\ view = "unmounted"
    /\ removeCalls = 2
    /\ userPos # None

\* C9: after unmount no position callback changes userPos or geoError,
\* and clearWatch is called at most once per mount.
C9_NoLatePosition ==
    [][ /\ (view = "unmounted" => userPos' = userPos /\ geoError' = geoError)
        /\ clearCalls' <= 1 ]_vars

\* C10: a failure callback of the position stream sets geoError to a
\* non-empty reason and leaves userPos, hence the nearest result, as it was.
C10_FailureKeepsPosition ==
    [][ \A cb \in Callbacks :
          (PositionCallback(cb) /\ ~cb.ok) =>
            /\ geoError' \notin {Null, ""}
            /\ userPos' = userPos
            /\ nearest(userPos', locations') = nearest(userPos, locations) ]_vars

\* C10 witness: a failure without a message arrived after a position was
\* published and a nearest point resolved.
C10_Witness ==
    /\ geoError = "Unable to get location."
    /\ userPos # None
    /\ nearest(userPos, locations) # None

\* The user's actions on the view: tap, close, resize, pan.
UserAction ==
    \/ \E f \in Rendered, h \in Heights : Tap(f, h)
    \/ \E h \in Heights : Close(h)
    \/ Resize
    \/ UserPan

\* C11: a successful position callback while the view is mounted sets
\* geoError to null and userPos to the reported latitude and longitude,
\* whatever they were before.
C11_SuccessPublishes ==
    [][ \A cb \in Callbacks :
          (PositionCallback(cb) /\ cb.ok /\ view = "mounted") =>
            /\ geoError' = Null
            /\ userPos' = Some([lat |-> cb.pos.lat, lng |-> cb.pos.lng]) ]_vars

\* C11 witness: a position was published in the mounted view after the
\* first one (the second position of the model) and no error is shown.
C11_Witness ==
    /\ view = "mounted"
    /\ geoError = Null
    /\ userPos = Some([lat |-> 57, lng |-> -3])
    /\ nearestMemo # None

\* C12: a position-stream failure is dismissable: whenever geoError is set
\* in the mounted view, some action of the user clears it.
C12_GeoErrorDismissable ==
    (view = "mounted" /\ geoError # Null) => ENABLED (UserAction /\ geoError' = Null)

\* C13: a fetch result that arrives after unmount changes none of
\* locations, error and loading.
C13_LateFetchNoOp ==
    [][ (view = "unmounted" /\ fetch = "pending" /\ fetch' = "done") =>
          /\ locations' = locations
          /\ error' = error
          /\ loading' = loading ]_vars

\* C13 witness: the fetch resolved after unmount and the view still shows
\* the state it had at unmount (loading, no rows).
C13_Witness ==
    /\ view = "unmounted"
    /\ fetch = "done"
    /\ cancelled
    /\ loading = TRUE
    /\ locations = <<>>

\* C14: a fetch error in the mounted view sets error to the message,
\* empties locations, ends loading and leaves no nearest result; position
\* callbacks keep publishing userPos afterwards.
C14_FetchErrorRecovered ==
    [][ /\ \A res \in FetchResults :
             (FetchDone(res) /\ res.error # Null /\ view = "mounted") =>
               /\ error' = res.error
               /\ locations' = <<>>
               /\ loading' = FALSE
               /\ nearestMemo' = None
        /\ \A cb \in Callbacks :
             (PositionCallback(cb) /\ cb.ok /\ error = "fetch failed" /\ view = "mounted") =>
               userPos' = Some(cb.pos) ]_vars

\* C14 witness: after the fetch failed a position was published.
C14_Witness ==
    /\ view = "mounted"
    /\ error = "fetch failed"
    /\ locations = <<>>
    /\ loading = FALSE
    /\ userPos # None
    /\ nearestMemo = None

\* Row l has finite coordinates inside the geographic range.
InRange(l) ==
    /\ IsFinite(l.lat)
    /\ IsFinite(l.lng)
    /\ -90 <= l.lat /\ l.lat <= 90
    /\ -180 <= l.lng /\ l.lng <= 180

\* C15: the projected collection holds no point outside the geographic
\* range or with a non-finite coordinate, and holds every finite in-range
\* record, in input order.
C15_ProjectedInRange ==
    LET fs == geojson(locations)
        kept == SelectSeq(locations, InRange)
    IN /\ \A i \in 1..Len(fs) : InRange(fs[i])
       /\ fs = [i \in 1..Len(kept) |-> Feature(kept[i])]

\* C16: with a position and at least one valid point, the distance of the
\* nearest result is at most the distance to every valid point, and the
\* result is a point of the collection at that distance.
C16_NearestMinimal ==
    (userPos # None /\ \E i \in 1..Len(locations) : InRange(locations[i])) =>
      /\ nearestMemo # None
      /\ \A i \in 1..Len(locations) :
           InRange(locations[i]) =>
             nearestMemo[1].meters <=
               haversineMeters(userPos[1].lat, userPos[1].lng,
                               locations[i].lat, locations[i].lng)
      /\ \E i \in 1..Len(locations) :
           /\ locations[i] = nearestMemo[1].loc
           /\ ValidCoord(locations[i])
           /\ nearestMemo[1].meters =
                haversineMeters(userPos[1].lat, userPos[1].lng,
                                locations[i].lat, locations[i].lng)

\* C16 witness: two valid points, the second strictly nearer than the
\* first, and the result is the second.
C16_Witness ==
    /\ userPos # None
    /\ Len(locations) = 2
    /\ InRange(locations[1]) /\ InRange(locations[2])
    /\ nearestMemo # None
    /\ nearestMemo[1].loc = locations[2]
    /\ nearestMemo[1].meters <
         haversineMeters(userPos[1].lat, userPos[1].lng,
                         locations[1].lat, locations[1].lng)

\* C17: the published nearest result is the resolver applied to the current
\* userPos and locations, and is null when userPos is null or locations
\* is empty.
C17_NearestCurrent ==
    /\ nearestMemo = nearest(userPos, locations)
    /\ (userPos = None \/ Len(locations) = 0) => nearestMemo = None

\* C17 witness: a position arrived before the rows did, and the result
\* published afterwards is for both.
C17_Witness ==
    /\ view = "mounted"
    /\ mapRef # 0
    /\ fetch = "done"
    /\ userPos # None
    /\ nearestMemo # None
    /\ chip # None

\* C18: when the image callback of a map succeeds, the fit issues nothing
\* for zero points; for one point a single easeTo at that point with zoom
\* 15 and no fitBounds; for two or more points a single fitBounds whose box
\* contains every point, with bottom padding above top padding and a
\* maxZoom ceiling.
C18_FitRequests ==
    [][\A m \in 1..Len(maps) :
         ImageCallback(m, "ok") =>
           LET fs == maps[m].geo IN
           /\ Len(fs) = 0 => issued' = <<>>
           /\ Len(fs) = 1 =>
                /\ Len(issued') = 1
                /\ issued'[1].op = "easeTo"
                /\ issued'[1].map = m
                /\ issued'[1].center = <<fs[1].lng, fs[1].lat>>
                /\ issued'[1].zoom = 15
           /\ Len(fs) >= 2 =>
                /\ Len(issued') = 1
                /\ issued'[1].op = "fitBounds"
                /\ issued'[1].map = m
                /\ \A i \in 1..Len(fs) :
                     /\ issued'[1].sw[1] <= fs[i].lng /\ fs[i].lng <= issued'[1].ne[1]
                     /\ issued'[1].sw[2] <= fs[i].lat /\ fs[i].lat <= issued'[1].ne[2]
                /\ issued'[1].padding.bottom > issued'[1].padding.top
                /\ "maxZoom" \in DOMAIN issued'[1]
                /\ issued'[1].maxZoom \in Nat
      ]_vars

\* C18 witness: a fitBounds was just issued for a map with two points that
\* differ in both coordinates.
C18_Witness ==
    /\ Len(issued) = 1
    /\ issued[1].op = "fitBounds"
    /\ Len(maps[issued[1].map].geo) >= 2
    /\ issued[1].sw[1] < issued[1].ne[1]
    /\ issued[1].sw[2] < issued[1].ne[2]

\* Request r is a fit of map m: a bounds-fit, or the center-and-zoom of a
\* single point.
IsFit(r, m) ==
    /\ r.map = m
    /\ r.op = "fitBounds" \/ (r.op = "easeTo" /\ "offset" \notin DOMAIN r)

\* Some map's pin image failed to load.
ImageFailedOn(m) == maps[m].phase = "imageFailed"

\* C20: when the pin image fails for a live map an error message is set and
\* no fit is issued; a map whose image failed never gets the source, the
\* layer or the tap handler, nor a fit; and a position success still
\* updates userPos and the nearest result.
C20_ImageFailureContained ==
    [][/\ \A m \in 1..Len(maps) :
            (ImageCallback(m, "error") /\ ~maps[m].removed) =>
              /\ error' # Null
              /\ maps'[m].phase = "imageFailed"
              /\ issued' = <<>>
              /\ fitCalls' = fitCalls /\ fitRequests' = fitRequests
              /\ hasFitRef' = hasFitRef
       /\ \A m \in 1..Len(maps) :
            ImageFailedOn(m) =>
              /\ maps'[m].source = None
              /\ ~maps'[m].layer
              /\ ~maps'[m].click
              /\ maps'[m].phase \in {"imageFailed", "gone"}
              /\ \A i \in 1..Len(issued') : ~IsFit(issued'[i], m)
       /\ \A cb \in Callbacks :
            (PositionCallback(cb) /\ cb.ok /\ \E m \in 1..Len(maps) : ImageFailedOn(m)) =>
              /\ userPos' = Some(cb.pos)
              /\ nearestMemo' = nearest(userPos', locations')
      ]_vars

\* C20 witness: the image of the live map failed, the message is shown,
\* and a position and a nearest result are published.
C20_Witness ==
    /\ view = "mounted"
    /\ mapRef # 0
    /\ ImageFailedOn(mapRef)
    /\ error = "Could not load roll-pin.png. Check /public/roll-pin.png"
    /\ maps[mapRef].source = None
    /\ userPos # None
    /\ nearestMemo # None

\* The text of a whole number of metres.
MetresText(n) == ToString(n) \o " m"

\* The text of t tenths of a kilometre.
KmText(t) == ToString(t \div 10) \o "." \o ToString(t % 10) \o " km"

\* C19: a distance below 1000 m is drawn as the nearest whole metre and
\* " m" (999 m gives "999 m"); a distance of 1000 m or more is drawn as
\* kilometres with one decimal, at most half a tenth off, and " km"
\* (1000 m gives "1.0 km", 1500 m gives "1.5 km").
C19_DistanceText ==
    chip # None =>
      LET d == chip[1].meters
          t == chip[1].text
      IN /\ d < 100000 =>
              \E n \in 0..1000 :
                /\ 100 * n - 50 <= d /\ d < 100 * n + 50
                /\ t = MetresText(n)
         /\ d >= 100000 =>
              \E k \in ((d \div 10000) - 1)..((d \div 10000) + 1) :
                /\ k >= 10
                /\ k * 10000 - 5000 <= d /\ d <= k * 10000 + 5000
                /\ t = KmText(k)
         /\ d = 99900 => t = "999 m"
         /\ d = 100000 => t = "1.0 km"
         /\ d = 150000 => t = "1.5 km"

\* C19 witness: the chip is drawn for exactly 1000 m, and reads "1.0 km".
C19_Witness ==
    /\ chip # None
    /\ chip[1].meters = 100000
    /\ chip[1].text = "1.0 km"

\* C22: every tap that opens the selection on point p issues, on the live
\* map and in this order, exactly one easeTo centred on p with offset
\* (0, -120) and then exactly one setPadding whose bottom is half the
\* window height (rounded) and whose other sides are zero.
C22_OpenPanThenPad ==
    [][ \A f \in Rendered, h \in Heights :
          (Tap(f, h) /\ UsableId(f)) =>
            /\ selected' # None
            /\ mapRef # 0 /\ Live(mapRef)
            /\ Len(issued') = 2
            /\ issued'[1].op = "easeTo"
            /\ issued'[1].map = mapRef
            /\ issued'[1].center = <<f.lng, f.lat>>
            /\ issued'[1].offset = <<0, -120>>
            /\ issued'[2].op = "setPadding"
            /\ issued'[2].map = mapRef
            /\ 2 * issued'[2].padding.bottom - h \in {0, 1}
            /\ issued'[2].padding.top = 0
            /\ issued'[2].padding.left = 0
            /\ issued'[2].padding.right = 0 ]_vars

\* C22 witness: the selection is Open and the last step issued the pan
\* and then the padding for a window of odd height 667.
C22_Witness ==
    /\ view = "mounted"
    /\ selected # None
    /\ Len(issued) = 2
    /\ issued[1].op = "easeTo"
    /\ issued[1].center = <<selected[1].lng, selected[1].lat>>
    /\ issued[2].op = "setPadding"
    /\ issued[2].padding.bottom = 334
    /\ maps[mapRef].padding = 334

\* Distance from the current position to row i of locations.
DistanceTo(i) ==
    haversineMeters(userPos[1].lat, userPos[1].lng, locations[i].lat, locations[i].lng)

\* C23: among the valid points at the distance of the nearest result, the
\* result is the one that comes first in locations; the result is a
\* function of userPos and locations.
C23_FirstOfTies ==
    nearestMemo # None =>
      /\ \A i \in 1..Len(locations) :
           (ValidCoord(locations[i]) /\ DistanceTo(i) = nearestMemo[1].meters) =>
             \E j \in 1..i : locations[j] = nearestMemo[1].loc
      /\ nearestMemo = nearest(userPos, locations)

\* C23 witness: two different valid points at the same distance from the
\* position, and the result is the first of them.
C23_Witness ==
    /\ userPos # None
    /\ Len(locations) = 2
    /\ ValidCoord(locations[1]) /\ ValidCoord(locations[2])
    /\ locations[1] # locations[2]
    /\ DistanceTo(1) = DistanceTo(2)
    /\ nearestMemo # None
    /\ nearestMemo[1].loc = locations[1]

\* C24: in no state has a map been removed while the position watch of
\* the view is still active or its fetch is still in flight and not
\* cancelled.
C24_TeardownOrder ==
    (\E m \in 1..Len(maps) : maps[m].removed) =>
      /\ watch # "active"
      /\ ~(fetch = "pending" /\ ~cancelled)

\* C25: a map has the places source, the places layer or the tap
\* subscription only once its image callback has succeeded; a source
\* appears on a map only in that callback (setData never creates one);
\* and a fit is issued to a map only in or after that callback.
C25_AfterImageSuccess ==
    [][ /\ \A m \in 1..Len(maps') :
             (maps'[m].source # None \/ maps'[m].layer \/ maps'[m].click) =>
               maps'[m].phase = "ready"
        /\ \A m \in 1..Len(maps') :
             maps'[m].source # None =>
               \/ m <= Len(maps) /\ maps[m].source # None
               \/ m <= Len(maps) /\ ImageCallback(m, "ok")
        /\ \A i \in 1..Len(issued') :
             IsFit(issued'[i], issued'[i].map) =>
               \/ maps[issued'[i].map].phase = "ready"
               \/ ImageCallback(issued'[i].map, "ok") ]_vars

\* C25 witness: the live map is ready with source, layer and tap
\* subscription, and its fit has been issued.
C25_Witness ==
    /\ mapRef # 0
    /\ maps[mapRef].phase = "ready"
    /\ maps[mapRef].source # None
    /\ maps[mapRef].layer
    /\ maps[mapRef].click
    /\ maps[mapRef].camera = "fitted"
    /\ fitCalls >= 1

\* C27: whenever the live map has its places source, the data of that
\* source is the collection projected from the current locations, the
\* same locations the nearest result is computed from.
C27_SourceIsCurrent ==
    (mapRef # 0 /\ maps[mapRef].source # None) =>
      /\ maps[mapRef].source[1] = geojson(locations)
      /\ nearestMemo = nearest(userPos, locations)

\* C27 witness: the live map shows two points, after the fetch, and a
\* nearest result is published.
C27_Witness ==
    /\ mapRef # 0
    /\ maps[mapRef].source # None
    /\ Len(maps[mapRef].source[1]) = 2
    /\ Len(locations) = 2
    /\ nearestMemo # None

C29_GuardedFitNeverIssued ==
    [][ /\ (mapRef' # 0 /\ maps'[mapRef'].source # None) => hasFitRef'
        /\ fitCalls' # fitCalls => \E m \in 1..Len(maps) : ImageCallback(m, "ok")
        /\ \A i \in 1..Len(issued') :
             IsFit(issued'[i], issued'[i].map) => ImageCallback(issued'[i].map, "ok") ]_vars

\* C29 witness: after the fetch the live map has its source, the flag is
\* set and fitMapToPins has been called.
C29_Witness ==
    /\ view = "mounted"
    /\ fetch = "done"
    /\ mapRef # 0
    /\ maps[mapRef].source # None
    /\ hasFitRef
    /\ fitCalls >= 1

\* C30 as stated: once the view is mounted and the shared error is set,
\* the same message stays set in every later state.
C30_SameErrorForLife ==
    [][ (view # "init" /\ error # Null) => error' = error ]_vars

\* C30 amended: once the view is mounted the shared error never goes from
\* set to cleared; with the error set, a tap on a usable point still opens
\* the selection and a position update still arrives, and both leave the
\* message as it is (a later failure may replace it by its own message).
C30_ErrorNeverCleared ==
    [][ /\ (view # "init" /\ error # Null) => error' # Null
        /\ \A f \in Rendered :
             ((\E h \in Heights : Tap(f, h)) /\ UsableId(f) /\ error # Null) =>
               /\ selected' # None
               /\ error' = error
        /\ \A cb \in Callbacks :
             (PositionCallback(cb) /\ error # Null) =>
               /\ error' = error
               /\ cb.ok => userPos' = Some(cb.pos) ]_vars

\* C30 witness: the error of a rejected tap is still set while the
\* selection is Open and a position is published.
C30_Witness ==
    /\ view = "mounted"
    /\ error = "This pin has no valid id (cannot open reviews)."
    /\ selected # None
    /\ userPos # None

\* The price text is blank.
PriceIsEmpty(s) == trim(s) = <<>>

\* The price text is a non-negative decimal number, with or without a
\* leading pound sign.
PriceIsNumber(s) ==
    LET t == trim(s)
        u == IF t # <<>> /\ Head(t) = "£" THEN Tail(t) ELSE t
    IN /\ \E i \in 1..Len(u) : u[i] \in Digits
       /\ \A i \in 1..Len(u) : u[i] \in Digits \cup {"."}
       /\ Cardinality({ i \in 1..Len(u) : u[i] = "." }) <= 1

\* The rating form c holds valid input.
ValidRating(c) ==
    /\ c.stars >= 1 /\ c.stars <= 5
    /\ PriceIsEmpty(c.price) \/ PriceIsNumber(c.price)

\* The location form al holds valid input.
ValidLocation(al) == trim(al.name) # <<>> /\ al.lat # None /\ al.lng # None

\* C21: a submit attempts the insert only when the form's input is valid
\* (stars in 1..5 and price empty or a finite non-negative number for a
\* rating; non-blank name and a dropped pin for a location); on invalid
\* input no insert is attempted, an error message is set and the
\* submitting/saving flag stays false.
C21_WriteOnlyValidInput ==
    [][ /\ PlaceSubmit =>
             IF ValidRating(placeClient)
             THEN TRUE
             ELSE /\ placeClient'.insert = None
                  /\ placeClient'.error # Null
                  /\ ~placeClient'.submitting
        /\ AddClientSubmit =>
             IF ValidRating(addClient)
             THEN TRUE
             ELSE /\ addClient'.insert = None
                  /\ addClient'.error # Null
                  /\ ~addClient'.submitting
        /\ AddLocationSave =>
             IF ValidLocation(addLocationPage)
             THEN TRUE
             ELSE /\ addLocationPage'.insert = None
                  /\ addLocationPage'.error # Null
                  /\ ~addLocationPage'.saving ]_vars

\* C26: the result of a loadAll run that is not the latest run started,
\* or that arrives after the unmount, leaves location, ratings, error and
\* loading as they are.
C26_StaleLoadDiscarded ==
    [][ \A i \in 1..Len(placeClient.runs) :
          ((\/ \E res \in StatsResults(placeClient.runs[i].id) : PlaceStatsDone(i, res)
            \/ \E res \in RatingsResults(placeClient.runs[i].id) : PlaceRatingsDone(i, res))
           /\ (placeClient.runs[i].n < placeClient.started \/ placeClient.view = "unmounted"))
          => /\ placeClient'.location = placeClient.location
             /\ placeClient'.ratings = placeClient.ratings
             /\ placeClient'.error = placeClient.error
             /\ placeClient'.loading = placeClient.loading ]_vars

====
